---- MODULE Spec2Model ----
(***************************************************************************)
(* sdstatus: the concurrent scan of SecureDrop sites (main.go).            *)
(*                                                                         *)
(* runScan launches one checkStatus goroutine per SecureDrop, waits for    *)
(* all of them on a sync.WaitGroup, drains the buffered results channel    *)
(* into resultList and renders the list once, as csv or json.  A           *)
(* reportProgress goroutine consumes the buffered updates channel.         *)
(***************************************************************************)
EXTENDS Integers, Sequences, FiniteSets, TLC

\* Largest number of SecureDrops handed to runScan.
MaxTargets == 2

\* The SecureDrops of a scan are numbered 1..n; the number is the Title
\* (titles compare as the numbers do).
SecureDrops(n) == 1..n

\* What client.Get and the reading of the body can come to (main.go:61-84):
\*   neterr   err != nil (refused, proxy failure, timeout)
\*   status   err == nil, StatusCode != 200
\*   readerr  200, ioutil.ReadAll fails
\*   valid    200, body is a well-formed metadata document
\*   syntax   200, body is not JSON
\*   badtype  200, body is JSON with sd_version of the wrong type
Responses == {"neterr", "status", "readerr", "valid", "syntax", "badtype"}

Formats == {"json", "csv"}

VARIABLES
    secureDrops,    \* number of entries of the map given to runScan
    format,         \* "json" or "csv"
    pcMain,         \* position of the goroutine running scan/runScan
    pc,             \* position of each checkStatus goroutine
    resp,           \* what client.Get returned to each checkStatus
    wg,             \* counter of the sync.WaitGroup
    results,        \* contents of the results channel
    resultsClosed,  \* close(results) has run
    updates,        \* contents of the updates channel
    updatesClosed,  \* close(updates) has run
    pcReport,       \* position of the reportProgress goroutine
    resultList,     \* the slice runScan collects into
    output,         \* documents written to the output writer
    renderErr,      \* the serialization at render time failed
    crashed,        \* the process was ended from a goroutine (panic, log.Fatal)
    exitStatus,     \* "running", "ok" (scan returned), "panic", "fatal", "deadlock"
    setupErr,       \* the step of scan's setup that failed, "" when none did
    onion_urls,     \* the ONION_URL arguments of the scan command
    sdd,            \* the SecureDrops read from the input file
    sddir,          \* the SecureDrops fetched from the directory
    sdMap,          \* the map secureDrops of scan: onion address -> SecureDrop
    \* state of the earlier variants of the program (part_003, part_002)
    chClosed,       \* part_003: close(ch) has run
    pcCloser,       \* part_003: position of the goroutine that waits and closes
    x,              \* part_003: the value the consumer loop has received
    i,              \* part_002: counter of the probes still to be received
    lines           \* part_002: the lines of sdonion.txt, "" for a blank one

vars == <<secureDrops, format, pcMain, pc, resp, wg, results, resultsClosed,
          updates, updatesClosed, pcReport, resultList, output, renderErr,
          crashed, exitStatus, setupErr, onion_urls, sdd, sddir, sdMap,
          chClosed, pcCloser, x, i, lines>>

\* The sources of the targets and the map scan merges them into.
mergeVars == <<onion_urls, sdd, sddir, sdMap>>

\* The variables only the earlier variants use.
variantVars == <<chClosed, pcCloser, x, i, lines>>

Targets == SecureDrops(secureDrops)

\* Cap with the channels made one slot short.
CapOneShort == secureDrops - 1

\* cap(results) and cap(updates): both are made with len(secureDrops).
Cap == secureDrops

----------------------------------------------------------------------------
\* SecureDropMetadata and ScanResult

ZeroMetadata == [Version |-> "", Fingerprint |-> ""]

\* json.Unmarshal(body, &md): the metadata left in md and whether an error
\* is returned.  A syntax error leaves md untouched; a field of the wrong
\* type is skipped, the other fields are still decoded, and an error is
\* returned after the pass.
Unmarshal(body) ==
    CASE body = "valid"   -> [md |-> [Version |-> "v", Fingerprint |-> "f"], err |-> FALSE]
      [] body = "badtype" -> [md |-> [Version |-> "", Fingerprint |-> "f"], err |-> TRUE]
      [] OTHER            -> [md |-> ZeroMetadata, err |-> TRUE]

\* err.Error() of the error of client.Get or of ioutil.ReadAll.
ErrorText(r) == IF r = "neterr" THEN "get failed" ELSE "read failed"

\* ErrResult with result.Available left true on a failure branch.
ErrResultAvailable(t, r) ==
    [Title |-> t, Available |-> TRUE, Error |-> ErrorText(r), Metadata |-> ZeroMetadata]

\* ErrResult with result.Error left unset.
ErrResultNoError(t, r) ==
    [Title |-> t, Available |-> FALSE, Error |-> "", Metadata |-> ZeroMetadata]

\* The result sent on the failure branches (main.go:71-73 and 79-81).
ErrResult(t, r) ==
    [Title |-> t, Available |-> FALSE, Error |-> ErrorText(r), Metadata |-> ZeroMetadata]

\* The result sent when the body was read (main.go:83-88): the error of
\* json.Unmarshal is dropped.
OkResult(t, body) ==
    [Title |-> t, Available |-> TRUE, Error |-> "", Metadata |-> Unmarshal(body).md]

\* Panics with the response read before err is tested: response is nil when
\* err is not.
PanicsOnTransportError(r) == r \in {"status", "neterr"}

\* checkStatus panics at result.Error = err.Error() when err is nil, which is
\* the case of a response with a status other than 200 (main.go:62,72).
Panics(r) == r = "status"

\* ScanResultOf with the outcome depending on whether a sibling has already
\* delivered its result.
ScanResultOfSibling(t, r) ==
    IF r \in {"neterr", "readerr"} \/ results # <<>> THEN ErrResult(t, r) ELSE OkResult(t, r)

\* The ScanResult checkStatus builds for a response that does not panic.
ScanResultOf(t, r) ==
    IF r \in {"neterr", "readerr"} THEN ErrResult(t, r) ELSE OkResult(t, r)

----------------------------------------------------------------------------
\* Rendering (main.go:124-133)

\* A csv row: the Metadata field is tagged csv:"-".
CsvRow(r) == [Title |-> r.Title, Available |-> r.Available, Error |-> r.Error]

RECURSIVE CsvRows(_)
CsvRows(list) ==
    IF list = <<>> THEN <<>> ELSE <<CsvRow(Head(list))>> \o CsvRows(Tail(list))

\* The document written for a result list: gocsv.Marshal writes one row per
\* element, json.MarshalIndent one object per element, both in list order.
Render(list, fmt) ==
    IF fmt = "csv" THEN [format |-> "csv", records |-> CsvRows(list)]
                   ELSE [format |-> "json", records |-> list]

----------------------------------------------------------------------------
\* The sources and the map when the merge is not modelled: Spec looks at the
\* number of entries of the map only.
MergeIdle ==
    /\ onion_urls = <<>>
    /\ sdd = <<>>
    /\ sddir = <<>>
    /\ sdMap = <<>>

\* The variables of a variant that is not running.
VariantIdle ==
    /\ chClosed = FALSE
    /\ pcCloser = "idle"
    /\ x = "none"
    /\ i = 0
    /\ lines = <<>>

\* The scan command after its options were validated (main.go:185-195),
\* with the number of distinct addresses its sources hold.
Init ==
    /\ secureDrops \in 0..MaxTargets
    /\ format \in Formats
    /\ pcMain = "readInput"
    /\ setupErr = ""
    /\ MergeIdle
    /\ VariantIdle
    /\ pc = [t \in SecureDrops(MaxTargets + 1) |-> "idle"]
    /\ resp = [t \in SecureDrops(MaxTargets + 1) |-> "none"]
    /\ wg = 0
    /\ results = <<>>
    /\ resultsClosed = FALSE
    /\ updates = <<>>
    /\ updatesClosed = FALSE
    /\ pcReport = "idle"
    /\ resultList = <<>>
    /\ output = <<>>
    /\ renderErr = FALSE
    /\ crashed = FALSE
    /\ exitStatus = "running"

----------------------------------------------------------------------------
\* scan: the setup before runScan (main.go:197-235)

\* log.Fatal / log.Fatalf in the setup: the process exits with status 1.
SetupFatal(step) ==
    /\ setupErr' = step
    /\ pcMain' = "fatal"
    /\ exitStatus' = "fatal"

\* One step of the setup: not asked for, done, or failed.
SetupStep(at, step, outcomes, next) ==
    /\ ~crashed
    /\ pcMain = at
    /\ \E o \in outcomes :
          IF o = "failed" THEN SetupFatal(step)
                          ELSE /\ pcMain' = next
                               /\ UNCHANGED <<setupErr, exitStatus>>
    /\ UNCHANGED <<secureDrops, format, pc, resp, wg, results, resultsClosed, updates,
                   updatesClosed, pcReport, resultList, output, renderErr, crashed,
                   variantVars, mergeVars>>

\* scan_MakeClient with the failure of the proxy dialer logged and not fatal.
scan_MakeClientNotFatal ==
    /\ ~crashed
    /\ pcMain = "makeClient"
    /\ \E o \in {"ok", "failed"} : setupErr' = (IF o = "failed" THEN "makeClient" ELSE "")
    /\ pcMain' = "getDirectory"
    /\ UNCHANGED <<secureDrops, format, pc, resp, wg, results, resultsClosed, updates,
                   updatesClosed, pcReport, resultList, output, renderErr, crashed,
                   exitStatus, variantVars, mergeVars>>

\* main.go:204-213: readInputFile when --inputFile is given; it calls
\* log.Fatal when the file cannot be opened or parsed.
scan_ReadInput == SetupStep("readInput", "inputFile", {"skipped", "ok", "failed"}, "makeClient")

\* main.go:215 and 157-170: makeClient; log.Fatalf when the dialer fails.
scan_MakeClient == SetupStep("makeClient", "makeClient", {"ok", "failed"}, "getDirectory")

\* main.go:217-225: GetDirectory when --directory is given; log.Fatalf on
\* error.
scan_GetDirectory == SetupStep("getDirectory", "directory", {"skipped", "ok", "failed"}, "openOutput")

\* main.go:227-235: the output writer; log.Fatalf when --outputFile cannot
\* be created.  runScan is called next.
scan_OpenOutput == SetupStep("openOutput", "outputFile", {"skipped", "ok", "failed"}, "start")

----------------------------------------------------------------------------
\* runScan, main goroutine

\* runScan_Start with the reportProgress goroutine counted in the WaitGroup.
runScan_StartCountsReporter ==
    /\ ~crashed
    /\ UNCHANGED <<setupErr, variantVars, mergeVars>>
    /\ pcMain = "start"
    /\ pcReport' = "running"
    /\ wg' = secureDrops + 1
    /\ pcMain' = "launch"
    /\ UNCHANGED <<secureDrops, format, pc, resp, results, resultsClosed, updates,
                   updatesClosed, resultList, output, renderErr, crashed, exitStatus>>

\* main.go:103-111: make the channels, go reportProgress, wg.Add(len).
runScan_Start ==
    /\ ~crashed
    /\ UNCHANGED <<setupErr, variantVars, mergeVars>>
    /\ pcMain = "start"
    /\ pcReport' = "running"
    /\ wg' = secureDrops
    /\ pcMain' = "launch"
    /\ UNCHANGED <<secureDrops, format, pc, resp, results, resultsClosed, updates,
                   updatesClosed, resultList, output, renderErr, crashed, exitStatus>>

\* main.go:112-114: go checkStatus for the next entry of the map, in the
\* map's iteration order, which is unspecified.
runScan_Launch(t) ==
    /\ ~crashed
    /\ UNCHANGED <<setupErr, variantVars, mergeVars>>
    /\ pcMain = "launch"
    /\ t \in Targets
    /\ pc[t] = "idle"
    /\ pc' = [pc EXCEPT ![t] = "checking"]
    /\ UNCHANGED <<secureDrops, format, pcMain, resp, wg, results, resultsClosed,
                   updates, updatesClosed, pcReport, resultList, output, renderErr,
                   crashed, exitStatus>>

\* BarrierPassed with wg.Wait returning while one probe is still counted.
BarrierOffByOne == wg <= 1

\* BarrierPassed with the wg.Wait left out.
BarrierSkipped == TRUE

\* wg.Wait returns when the counter is zero.
BarrierPassed == wg = 0

\* main.go:117: wg.Wait, after the launch loop has ended.
runScan_Wait ==
    /\ ~crashed
    /\ UNCHANGED <<setupErr, variantVars, mergeVars>>
    /\ pcMain = "launch"
    /\ \A t \in Targets : pc[t] # "idle"
    /\ BarrierPassed
    /\ pcMain' = "close"
    /\ UNCHANGED <<secureDrops, format, pc, resp, wg, results, resultsClosed, updates,
                   updatesClosed, pcReport, resultList, output, renderErr, crashed,
                   exitStatus>>

\* main.go:118: close(results).
runScan_CloseResults ==
    /\ ~crashed
    /\ UNCHANGED <<setupErr, variantVars, mergeVars>>
    /\ pcMain = "close"
    /\ resultsClosed' = TRUE
    /\ pcMain' = "drain"
    /\ UNCHANGED <<secureDrops, format, pc, resp, wg, results, updates, updatesClosed,
                   pcReport, resultList, output, renderErr, crashed, exitStatus>>

\* main.go:120-122: one iteration of the range over results, or its end.
runScan_Drain ==
    /\ ~crashed
    /\ UNCHANGED <<setupErr, variantVars, mergeVars>>
    /\ pcMain = "drain"
    /\ IF results # <<>>
         THEN /\ resultList' = Append(resultList, Head(results))
              /\ results' = Tail(results)
              /\ pcMain' = pcMain
         ELSE /\ resultsClosed
              /\ pcMain' = "render"
              /\ UNCHANGED <<resultList, results>>
    /\ UNCHANGED <<secureDrops, format, pc, resp, wg, resultsClosed, updates,
                   updatesClosed, pcReport, output, renderErr, crashed, exitStatus>>

\* main.go:124-133: serialize resultList and write it.  When serialization
\* fails nothing is returned: the csv error is dropped, the json error is
\* logged.  The writer is buffered (main.go:227) and an empty slice always
\* serializes, so only a non-empty batch can fail.
runScan_Render ==
    /\ ~crashed
    /\ UNCHANGED <<setupErr, variantVars, mergeVars>>
    /\ pcMain = "render"
    /\ \E ok \in (IF resultList = <<>> THEN {TRUE} ELSE BOOLEAN) :
         IF ok THEN /\ output' = Append(output, Render(resultList, format))
                    /\ UNCHANGED renderErr
               ELSE /\ renderErr' = TRUE
                    /\ UNCHANGED output
    /\ pcMain' = "closeUpdates"
    /\ UNCHANGED <<secureDrops, format, pc, resp, wg, results, resultsClosed, updates,
                   updatesClosed, pcReport, resultList, crashed, exitStatus>>

\* main.go:134: close(updates); runScan returns.
runScan_CloseUpdates ==
    /\ ~crashed
    /\ UNCHANGED <<setupErr, variantVars, mergeVars>>
    /\ pcMain = "closeUpdates"
    /\ updatesClosed' = TRUE
    /\ pcMain' = "returned"
    /\ UNCHANGED <<secureDrops, format, pc, resp, wg, results, resultsClosed, updates,
                   pcReport, resultList, output, renderErr, crashed, exitStatus>>

\* main.go:237: output.Flush(); the scan command returns and the process
\* exits with status 0.
scan_Flush ==
    /\ ~crashed
    /\ UNCHANGED <<setupErr, variantVars, mergeVars>>
    /\ pcMain = "returned"
    /\ pcMain' = "exited"
    /\ exitStatus' = "ok"
    /\ UNCHANGED <<secureDrops, format, pc, resp, wg, results, resultsClosed, updates,
                   updatesClosed, pcReport, resultList, output, renderErr, crashed>>

----------------------------------------------------------------------------
\* checkStatus, one goroutine per SecureDrop

\* A send on the updates channel: blocks while the buffer is full, panics
\* when the channel is closed.
checkStatus_SendUpdate(t, at, msg, next) ==
    /\ ~crashed
    /\ UNCHANGED <<setupErr, variantVars, mergeVars>>
    /\ pc[t] = at
    /\ IF updatesClosed
         THEN /\ pc' = [pc EXCEPT ![t] = "panicking"]
              /\ UNCHANGED updates
         ELSE /\ Len(updates) < Cap
              /\ updates' = Append(updates, <<msg, t>>)
              /\ pc' = [pc EXCEPT ![t] = next]
    /\ UNCHANGED <<secureDrops, format, pcMain, resp, wg, results, resultsClosed,
                   updatesClosed, pcReport, resultList, output, renderErr, crashed,
                   exitStatus>>

\* main.go:57: updates <- "Checking ..."
checkStatus_Checking(t) == checkStatus_SendUpdate(t, "checking", "Checking", "get")

\* main.go:61: client.Get returns (and, for a 200, the body is read).
checkStatus_Get(t) ==
    /\ ~crashed
    /\ UNCHANGED <<setupErr, variantVars, mergeVars>>
    /\ pc[t] = "get"
    /\ \E r \in Responses : resp' = [resp EXCEPT ![t] = r]
    /\ pc' = [pc EXCEPT ![t] = "respond"]
    /\ UNCHANGED <<secureDrops, format, pcMain, wg, results, resultsClosed, updates,
                   updatesClosed, pcReport, resultList, output, renderErr, crashed,
                   exitStatus>>

\* main.go:62-90: build the result and send it on results, or panic.
checkStatus_Respond(t) ==
    /\ ~crashed
    /\ UNCHANGED <<setupErr, variantVars, mergeVars>>
    /\ pc[t] = "respond"
    /\ IF Panics(resp[t]) \/ resultsClosed
         THEN /\ pc' = [pc EXCEPT ![t] = "panicking"]
              /\ UNCHANGED results
         ELSE /\ Len(results) < Cap
              /\ results' = Append(results, ScanResultOf(t, resp[t]))
              /\ pc' = [pc EXCEPT ![t] = "finishing"]
    /\ UNCHANGED <<secureDrops, format, pcMain, resp, wg, resultsClosed, updates,
                   updatesClosed, pcReport, resultList, output, renderErr, crashed,
                   exitStatus>>

\* main.go:91: updates <- "Finished checking ..."
checkStatus_Finished(t) == checkStatus_SendUpdate(t, "finishing", "Finished", "deferred")

\* main.go:52: the deferred wg.Done, on normal return.
checkStatus_Done(t) ==
    /\ ~crashed
    /\ UNCHANGED <<setupErr, variantVars, mergeVars>>
    /\ pc[t] = "deferred"
    /\ wg' = wg - 1
    /\ pc' = [pc EXCEPT ![t] = "done"]
    /\ UNCHANGED <<secureDrops, format, pcMain, resp, results, resultsClosed, updates,
                   updatesClosed, pcReport, resultList, output, renderErr, crashed,
                   exitStatus>>

\* main.go:52: the deferred wg.Done, run while the goroutine is panicking.
checkStatus_PanicDone(t) ==
    /\ ~crashed
    /\ UNCHANGED <<setupErr, variantVars, mergeVars>>
    /\ pc[t] = "panicking"
    /\ wg' = wg - 1
    /\ pc' = [pc EXCEPT ![t] = "panicked"]
    /\ UNCHANGED <<secureDrops, format, pcMain, resp, results, resultsClosed, updates,
                   updatesClosed, pcReport, resultList, output, renderErr, crashed,
                   exitStatus>>

\* The panic was not recovered: the runtime ends the process, status 2.
\* The other goroutines run until it does.
checkStatus_Crash(t) ==
    /\ ~crashed
    /\ UNCHANGED <<setupErr, variantVars, mergeVars>>
    /\ pc[t] = "panicked"
    /\ crashed' = TRUE
    /\ exitStatus' = "panic"
    /\ UNCHANGED <<secureDrops, format, pcMain, pc, resp, wg, results, resultsClosed,
                   updates, updatesClosed, pcReport, resultList, output, renderErr>>

----------------------------------------------------------------------------
\* reportProgress (main.go:95-99): one iteration of the range over updates,
\* or its end.
reportProgress ==
    /\ ~crashed
    /\ UNCHANGED <<setupErr, variantVars, mergeVars>>
    /\ pcReport = "running"
    /\ IF updates # <<>>
         THEN /\ updates' = Tail(updates)
              /\ UNCHANGED pcReport
         ELSE /\ updatesClosed
              /\ pcReport' = "done"
              /\ UNCHANGED updates
    /\ UNCHANGED <<secureDrops, format, pcMain, pc, resp, wg, results, resultsClosed,
                   updatesClosed, resultList, output, renderErr, crashed, exitStatus>>

----------------------------------------------------------------------------
Main ==
    \/ scan_ReadInput
    \/ scan_MakeClient
    \/ scan_GetDirectory
    \/ scan_OpenOutput
    \/ runScan_Start
    \/ \E t \in SecureDrops(MaxTargets + 1) : runScan_Launch(t)
    \/ runScan_Wait
    \/ runScan_CloseResults
    \/ runScan_Drain
    \/ runScan_Render
    \/ runScan_CloseUpdates
    \/ scan_Flush

Probe(t) ==
    \/ checkStatus_Checking(t)
    \/ checkStatus_Get(t)
    \/ checkStatus_Respond(t)
    \/ checkStatus_Finished(t)
    \/ checkStatus_Done(t)
    \/ checkStatus_PanicDone(t)
    \/ checkStatus_Crash(t)

Next ==
    \/ Main
    \/ \E t \in SecureDrops(MaxTargets + 1) : Probe(t)
    \/ reportProgress

Spec == Init /\ [][Next]_vars

\* Every goroutine is scheduled and every network call returns.
FairSpec ==
    /\ Spec
    /\ WF_vars(Main)
    /\ \A t \in SecureDrops(MaxTargets + 1) : WF_vars(Probe(t))
    /\ WF_vars(reportProgress)

----------------------------------------------------------------------------
\* The scan command with its sources (main.go:197-225): the targets given
\* as arguments, read from the input file and fetched from the directory
\* are merged into the map secureDrops, keyed by onion address, and runScan
\* starts one probe per entry.  The probe of the n-th entry is probe n.

\* Longest list of targets a source holds.
MaxSource == 1

Addresses == SecureDrops(MaxTargets)

AddressLists == UNION {[1..n -> Addresses] : n \in 0..MaxSource}

\* The SecureDrops a file or the directory lists at the given addresses; the
\* title tells the entries apart.
Entries(list, src) ==
    [k \in 1..Len(list) |-> [OnionAddress |-> list[k], Title |-> <<src, k>>]]

\* main.go:201: a target given as argument has its address as title.
ArgEntries(urls) ==
    [k \in 1..Len(urls) |-> [OnionAddress |-> urls[k], Title |-> <<"address", urls[k]>>]]

\* secureDrops[sd.OnionAddress] = sd
Put(m, sd) ==
    [a \in DOMAIN m \cup {sd.OnionAddress} |-> IF a = sd.OnionAddress THEN sd ELSE m[a]]

\* The loops of main.go:199-202, 210-212 and 222-224: the entries of a
\* source are put into the map in list order.
RECURSIVE PutAll(_, _)
PutAll(m, list) ==
    IF list = <<>> THEN m ELSE PutAll(Put(m, Head(list)), Tail(list))

MergeInit ==
    /\ onion_urls \in AddressLists
    /\ sdd \in {Entries(l, "inputFile") : l \in AddressLists}
    /\ sddir \in {Entries(l, "directory") : l \in AddressLists}
    /\ sdMap = <<>>
    /\ secureDrops = 0
    /\ format \in Formats
    /\ pcMain = "args"
    /\ setupErr = ""
    /\ VariantIdle
    /\ pc = [t \in SecureDrops(MaxTargets + 1) |-> "idle"]
    /\ resp = [t \in SecureDrops(MaxTargets + 1) |-> "none"]
    /\ wg = 0
    /\ results = <<>>
    /\ resultsClosed = FALSE
    /\ updates = <<>>
    /\ updatesClosed = FALSE
    /\ pcReport = "idle"
    /\ resultList = <<>>
    /\ output = <<>>
    /\ renderErr = FALSE
    /\ crashed = FALSE
    /\ exitStatus = "running"

\* A source is merged into the map, or reading it fails and log.Fatal ends
\* the process.
MergeStep(at, step, outcomes, list, next) ==
    /\ ~crashed
    /\ pcMain = at
    /\ \E o \in outcomes :
          IF o = "failed"
            THEN /\ SetupFatal(step)
                 /\ UNCHANGED <<sdMap, secureDrops>>
            ELSE /\ sdMap' = PutAll(sdMap, list)
                 /\ secureDrops' = Cardinality(DOMAIN sdMap')
                 /\ pcMain' = next
                 /\ UNCHANGED <<setupErr, exitStatus>>
    /\ UNCHANGED <<format, pc, resp, wg, results, resultsClosed, updates, updatesClosed,
                   pcReport, resultList, output, renderErr, crashed, onion_urls, sdd,
                   sddir, variantVars>>

\* main.go:197-202: the map is made and the arguments are put into it.
scan_MergeArgs == MergeStep("args", "args", {"ok"}, ArgEntries(onion_urls), "readInput")

\* main.go:204-213: the SecureDrops of the input file.
scan_MergeInput == MergeStep("readInput", "inputFile", {"ok", "failed"}, sdd, "makeClient")

\* main.go:217-225: the SecureDrops of the directory.
scan_MergeDirectory == MergeStep("getDirectory", "directory", {"ok", "failed"}, sddir, "openOutput")

MergeMain ==
    \/ scan_MergeArgs
    \/ scan_MergeInput
    \/ scan_MakeClient
    \/ scan_MergeDirectory
    \/ scan_OpenOutput
    \/ runScan_Start
    \/ \E t \in SecureDrops(MaxTargets + 1) : runScan_Launch(t)
    \/ runScan_Wait
    \/ runScan_CloseResults
    \/ runScan_Drain
    \/ runScan_Render
    \/ runScan_CloseUpdates
    \/ scan_Flush

MergeNext ==
    \/ MergeMain
    \/ \E t \in SecureDrops(MaxTargets + 1) : Probe(t)
    \/ reportProgress

MergeSpec == MergeInit /\ [][MergeNext]_vars

----------------------------------------------------------------------------
\* The streaming variant (part_003): runScan starts one goroutine per
\* SDInstance that sends its result on the unbuffered channel ch, and one
\* goroutine that closes ch after wg.Wait; the loop of createApp receives
\* from ch and displays each value until ch is closed.  Here secureDrops is
\* len(sdInstances), pcMain the position of createApp's action, pc the
\* positions of the worker goroutines and output what was displayed.

StreamFormats == {"csv", "json", "pp"}

\* Outcomes of client.Do, ioutil.ReadAll and the body (part_003:156-169); the
\* status code is not looked at.
StreamResponses == {"neterr", "readerr", "valid", "syntax", "badtype"}

\* The variables only main.go uses.
scanOnlyVars == <<results, resultsClosed, updates, updatesClosed, pcReport, renderErr>>

\* The SDInstance checkStatus returns (part_003:146-177) when it returns.
SDInstanceOf(t, r) ==
    IF r \in {"neterr", "readerr"}
      THEN [Title |-> t, Available |-> FALSE, Metadata |-> ZeroMetadata]
      ELSE [Title |-> t, Available |-> TRUE, Metadata |-> Unmarshal(r).md]

\* checkStatus calls log.Fatal when json.Unmarshal fails (part_003:169-172).
StreamFatal(r) == r \in {"valid", "syntax", "badtype"} /\ Unmarshal(r).err

\* displayInstance (part_003:225-238): the record printed for sd.
displayInstance(sd, fmt) ==
    IF fmt = "csv"
      THEN [Available |-> sd.Available, Version |-> sd.Metadata.Version, Title |-> sd.Title]
      ELSE sd

\* createApp has fetched the directory and made ch (part_003:258-259).
StreamInit ==
    /\ secureDrops \in 0..MaxTargets
    /\ format \in StreamFormats
    /\ pcMain = "dial"
    /\ pc = [t \in SecureDrops(MaxTargets + 1) |-> "idle"]
    /\ resp = [t \in SecureDrops(MaxTargets + 1) |-> "none"]
    /\ wg = 0
    /\ results = <<>>
    /\ resultsClosed = FALSE
    /\ updates = <<>>
    /\ updatesClosed = FALSE
    /\ pcReport = "idle"
    /\ resultList = <<>>
    /\ output = <<>>
    /\ renderErr = FALSE
    /\ crashed = FALSE
    /\ exitStatus = "running"
    /\ setupErr = ""
    /\ MergeIdle
    /\ VariantIdle

\* part_003:198-208: the SOCKS5 dialer; log.Fatal when it fails.
stream_runScan_Dial ==
    /\ ~crashed
    /\ pcMain = "dial"
    /\ \E ok \in BOOLEAN :
          IF ok THEN /\ pcMain' = "launch"
                     /\ UNCHANGED <<setupErr, exitStatus>>
                ELSE SetupFatal("proxy")
    /\ UNCHANGED <<secureDrops, format, pc, resp, wg, resultList, output, crashed,
                   scanOnlyVars, mergeVars, variantVars>>

\* part_003:211-218: wg.Add(1) and go func for the next instance of the
\* slice.
stream_runScan_Launch(t) ==
    /\ ~crashed
    /\ pcMain = "launch"
    /\ t \in Targets
    /\ pc[t] = "idle"
    /\ \A u \in 1..(t - 1) : pc[u] # "idle"
    /\ wg' = wg + 1
    /\ pc' = [pc EXCEPT ![t] = "check"]
    /\ UNCHANGED <<secureDrops, format, pcMain, resp, resultList, output, crashed,
                   exitStatus, setupErr, scanOnlyVars, mergeVars, variantVars>>

\* part_003:219-223: go func() { wg.Wait(); close(ch) }(); runScan returns
\* and createApp enters its receive loop.
stream_runScan_StartCloser ==
    /\ ~crashed
    /\ pcMain = "launch"
    /\ \A t \in Targets : pc[t] # "idle"
    /\ pcCloser' = "wait"
    /\ pcMain' = "recv"
    /\ UNCHANGED <<secureDrops, format, pc, resp, wg, resultList, output, crashed,
                   exitStatus, setupErr, scanOnlyVars, mergeVars, chClosed, x, i, lines>>

\* part_003:215 and 146-177: checkStatus; the request returns and the body
\* is decoded, or log.Fatal ends the process.
stream_checkStatus(t) ==
    /\ ~crashed
    /\ pc[t] = "check"
    /\ \E r \in StreamResponses :
          /\ resp' = [resp EXCEPT ![t] = r]
          /\ IF StreamFatal(r)
               THEN /\ pc' = [pc EXCEPT ![t] = "fatal"]
                    /\ crashed' = TRUE
                    /\ exitStatus' = "fatal"
               ELSE /\ pc' = [pc EXCEPT ![t] = "send"]
                    /\ UNCHANGED <<crashed, exitStatus>>
    /\ UNCHANGED <<secureDrops, format, pcMain, wg, resultList, output, setupErr,
                   scanOnlyVars, mergeVars, variantVars>>

\* part_003:216 and 262: ch <- r meets x, ok := <-ch on the unbuffered
\* channel; a send on the closed channel panics.
stream_Send(t) ==
    /\ ~crashed
    /\ pc[t] = "send"
    /\ IF chClosed
         THEN /\ pc' = [pc EXCEPT ![t] = "panicked"]
              /\ crashed' = TRUE
              /\ exitStatus' = "panic"
              /\ UNCHANGED <<x, pcMain>>
         ELSE /\ pcMain = "recv"
              /\ x' = SDInstanceOf(t, resp[t])
              /\ pcMain' = "display"
              /\ pc' = [pc EXCEPT ![t] = "deferred"]
              /\ UNCHANGED <<crashed, exitStatus>>
    /\ UNCHANGED <<secureDrops, format, resp, wg, resultList, output, setupErr,
                   scanOnlyVars, mergeVars, chClosed, pcCloser, i, lines>>

\* part_003:214: the deferred wg.Done.
stream_Done(t) ==
    /\ ~crashed
    /\ pc[t] = "deferred"
    /\ wg' = wg - 1
    /\ pc' = [pc EXCEPT ![t] = "done"]
    /\ UNCHANGED <<secureDrops, format, pcMain, resp, resultList, output, crashed,
                   exitStatus, setupErr, scanOnlyVars, mergeVars, variantVars>>

\* part_003:220: wg.Wait returns.
stream_CloserWait ==
    /\ ~crashed
    /\ pcCloser = "wait"
    /\ wg = 0
    /\ pcCloser' = "close"
    /\ UNCHANGED <<secureDrops, format, pcMain, pc, resp, wg, resultList, output,
                   crashed, exitStatus, setupErr, scanOnlyVars, mergeVars, chClosed, x, i, lines>>

\* part_003:221: close(ch).
stream_Close ==
    /\ ~crashed
    /\ pcCloser = "close"
    /\ chClosed' = TRUE
    /\ pcCloser' = "done"
    /\ UNCHANGED <<secureDrops, format, pcMain, pc, resp, wg, resultList, output,
                   crashed, exitStatus, setupErr, scanOnlyVars, mergeVars, x, i, lines>>

\* part_003:266: displayInstance(x, format).
stream_Display ==
    /\ ~crashed
    /\ pcMain = "display"
    /\ output' = Append(output, displayInstance(x, format))
    /\ x' = "none"
    /\ pcMain' = "recv"
    /\ UNCHANGED <<secureDrops, format, pc, resp, wg, resultList, crashed, exitStatus,
                   setupErr, scanOnlyVars, mergeVars, chClosed, pcCloser, i, lines>>

\* part_003:262-265 and 268: the receive on the closed channel gives
\* ok == false; the loop ends and the action returns nil.
stream_RecvClosed ==
    /\ ~crashed
    /\ pcMain = "recv"
    /\ chClosed
    /\ pcMain' = "exited"
    /\ exitStatus' = "ok"
    /\ UNCHANGED <<secureDrops, format, pc, resp, wg, resultList, output, crashed,
                   setupErr, scanOnlyVars, mergeVars, variantVars>>

StreamMain ==
    \/ stream_runScan_Dial
    \/ \E t \in SecureDrops(MaxTargets + 1) : stream_runScan_Launch(t)
    \/ stream_runScan_StartCloser
    \/ stream_Display
    \/ stream_RecvClosed

StreamWorker(t) ==
    \/ stream_checkStatus(t)
    \/ stream_Send(t)
    \/ stream_Done(t)

StreamCloser ==
    \/ stream_CloserWait
    \/ stream_Close

StreamNext ==
    \/ StreamMain
    \/ \E t \in SecureDrops(MaxTargets + 1) : StreamWorker(t)
    \/ StreamCloser

StreamSpec == StreamInit /\ [][StreamNext]_vars

----------------------------------------------------------------------------
\* The counter-based variant (part_002): main starts one checkStatus per
\* non-blank line of sdonion.txt, counting them in i, then receives from the
\* unbuffered channel ch until i is back to 0 and prints the batch.  Here
\* pc[k] is the position of the goroutine of line k, resultList the slice
\* results of main and output what was printed.

\* The contents of sdonion.txt split at newlines: strings.Split gives at
\* least one element; "" stands for a line that is blank after TrimSpace.
LineLists == UNION {[1..n -> {"", "addr"}] : n \in 1..MaxTargets}

\* The SDInfo checkStatus sends (part_002:48-83); the error of
\* json.Unmarshal is dropped.
SDInfoOf(k, r) ==
    IF r \in {"neterr", "readerr"}
      THEN [Title |-> k, Available |-> FALSE, Metadata |-> ZeroMetadata]
      ELSE [Title |-> k, Available |-> TRUE, Metadata |-> Unmarshal(r).md]

CounterInit ==
    /\ lines \in LineLists
    /\ secureDrops = 0
    /\ format = "json"
    /\ pcMain = "dial"
    /\ pc = [t \in SecureDrops(MaxTargets + 1) |-> "idle"]
    /\ resp = [t \in SecureDrops(MaxTargets + 1) |-> "none"]
    /\ wg = 0
    /\ results = <<>>
    /\ resultsClosed = FALSE
    /\ updates = <<>>
    /\ updatesClosed = FALSE
    /\ pcReport = "idle"
    /\ resultList = <<>>
    /\ output = <<>>
    /\ renderErr = FALSE
    /\ crashed = FALSE
    /\ exitStatus = "running"
    /\ setupErr = ""
    /\ MergeIdle
    /\ chClosed = FALSE
    /\ pcCloser = "idle"
    /\ x = "none"
    /\ i = 0

\* part_002:86-106: the dialer (os.Exit(1) when it fails) and the reading
\* of sdonion.txt (check panics when it fails).
counter_main_Setup ==
    /\ ~crashed
    /\ pcMain = "dial"
    /\ \E o \in {"ok", "proxy", "sdonion.txt"} :
          IF o = "ok" THEN /\ pcMain' = "launch"
                           /\ UNCHANGED <<setupErr, exitStatus>>
                      ELSE SetupFatal(o)
    /\ UNCHANGED <<secureDrops, format, pc, resp, wg, resultList, output, crashed,
                   scanOnlyVars, mergeVars, variantVars>>

\* part_002:108-116: one iteration of the loop over lines: a non-blank line
\* starts a checkStatus and adds one to i.
counter_main_Launch(k) ==
    /\ ~crashed
    /\ pcMain = "launch"
    /\ k \in 1..Len(lines)
    /\ pc[k] = "idle"
    /\ \A u \in 1..(k - 1) : pc[u] # "idle"
    /\ IF lines[k] # ""
         THEN /\ pc' = [pc EXCEPT ![k] = "check"]
              /\ i' = i + 1
         ELSE /\ pc' = [pc EXCEPT ![k] = "skipped"]
              /\ UNCHANGED i
    /\ pcMain' = (IF k = Len(lines) THEN "recv" ELSE "launch")
    /\ UNCHANGED <<secureDrops, format, resp, wg, resultList, output, crashed,
                   exitStatus, setupErr, scanOnlyVars, mergeVars, chClosed, pcCloser, x, lines>>

\* part_002:48-81: the request returns and the result is built.
counter_checkStatus(k) ==
    /\ ~crashed
    /\ pc[k] = "check"
    /\ \E r \in StreamResponses : resp' = [resp EXCEPT ![k] = r]
    /\ pc' = [pc EXCEPT ![k] = "send"]
    /\ UNCHANGED <<secureDrops, format, pcMain, wg, resultList, output, crashed,
                   exitStatus, setupErr, scanOnlyVars, mergeVars, variantVars>>

\* part_002:57-82 and 119-128: ch <- result meets result := <-ch; main
\* appends the result, takes one from i and leaves the loop when i is 0.
counter_Recv(k) ==
    /\ ~crashed
    /\ pc[k] = "send"
    /\ pcMain = "recv"
    /\ resultList' = Append(resultList, SDInfoOf(k, resp[k]))
    /\ i' = i - 1
    /\ pcMain' = (IF i - 1 = 0 THEN "print" ELSE "recv")
    /\ pc' = [pc EXCEPT ![k] = "done"]
    /\ UNCHANGED <<secureDrops, format, resp, wg, output, crashed, exitStatus,
                   setupErr, scanOnlyVars, mergeVars, chClosed, pcCloser, x, lines>>

\* part_002:119: main is blocked in the receive and no goroutine is left to
\* send: the Go runtime ends the process ("all goroutines are asleep").
counter_Deadlock ==
    /\ ~crashed
    /\ pcMain = "recv"
    /\ \A k \in 1..Len(lines) : pc[k] \in {"skipped", "done"}
    /\ crashed' = TRUE
    /\ exitStatus' = "deadlock"
    /\ UNCHANGED <<secureDrops, format, pcMain, pc, resp, wg, resultList, output,
                   setupErr, scanOnlyVars, mergeVars, variantVars>>

\* part_002:131-135: json.MarshalIndent of results (a slice of structs of
\* strings and a bool, which always serializes) and fmt.Println.
counter_main_Print ==
    /\ ~crashed
    /\ pcMain = "print"
    /\ output' = Append(output, [format |-> "json", records |-> resultList])
    /\ pcMain' = "exited"
    /\ exitStatus' = "ok"
    /\ UNCHANGED <<secureDrops, format, pc, resp, wg, resultList, crashed, setupErr,
                   scanOnlyVars, mergeVars, variantVars>>

CounterNext ==
    \/ counter_main_Setup
    \/ \E k \in SecureDrops(MaxTargets + 1) : counter_main_Launch(k)
    \/ \E k \in SecureDrops(MaxTargets + 1) : counter_checkStatus(k)
    \/ \E k \in SecureDrops(MaxTargets + 1) : counter_Recv(k)
    \/ counter_Deadlock
    \/ counter_main_Print

CounterSpec == CounterInit /\ [][CounterNext]_vars

----------------------------------------------------------------------------
\* Properties

\* The ScanResults sent so far: those still in the channel and those
\* collected.
Sent == results \o resultList

Delivered(t) == \E k \in 1..Len(Sent) : Sent[k].Title = t

Returned == pcMain \in {"returned", "exited"}

Panicked(t) == pc[t] \in {"panicking", "panicked"}

\* C1: when runScan finishes, the collected list holds exactly one result
\* per launched checkStatus, whatever the mix of probe outcomes.
C1_OneResultPerProbe ==
    Returned =>
        /\ Len(resultList) = secureDrops
        /\ \A t \in Targets : Cardinality({k \in 1..Len(resultList) : resultList[k].Title = t}) = 1

\* C2: checkStatus never terminates abnormally; a response with a status
\* other than 200 also ends in a result with Available=false and a failure
\* description sent on the results channel.
C2_NoAbnormalTermination ==
    \A t \in Targets :
        /\ ~Panicked(t)
        /\ (resp[t] = "status" /\ pc[t] \in {"finishing", "deferred", "done"}) =>
              \E k \in 1..Len(Sent) :
                  /\ Sent[k].Title = t
                  /\ ~Sent[k].Available
                  /\ Sent[k].Error # ""

\* C3: nothing is written to the output before every launched probe has
\* delivered its result; results is closed and drained and the document
\* rendered only after the barrier; the document is written at most once.
C3_OutputAfterAllDelivered ==
    /\ Len(output) <= 1
    /\ output # <<>> => \A t \in Targets : Delivered(t)
    /\ (resultsClosed \/ resultList # <<>> \/ output # <<>> \/ renderErr) => wg = 0

\* Whether the body of the response to t decoded as metadata.
Decoded(t) == resp[t] \in {"valid", "syntax", "badtype"} /\ ~Unmarshal(resp[t]).err

\* C4 as stated: Available iff Error is empty and the metadata decoded
\* (a 200 with a malformed body gives Available=false and an error).
C4_StrictPolicy ==
    \A k \in 1..Len(Sent) :
        Sent[k].Available <=> (Sent[k].Error = "" /\ Decoded(Sent[k].Title))

\* C4 amended: Available iff Error is empty, iff the response had status 200
\* and its body was read; a 200 whose body fails to decode gives
\* Available=true, an empty Error and the metadata json.Unmarshal left.
C4_LenientPolicy ==
    \A k \in 1..Len(Sent) :
        LET r == Sent[k]
            got == resp[r.Title]
        IN  /\ r.Available <=> r.Error = ""
            /\ r.Available <=> got \in {"valid", "syntax", "badtype"}
            /\ got \in {"syntax", "badtype"} =>
                   r.Available /\ r.Error = "" /\ r.Metadata = Unmarshal(got).md

C4_Witness ==
    \E k \in 1..Len(resultList) :
        /\ resp[resultList[k].Title] = "syntax"
        /\ resultList[k].Available
        /\ resultList[k].Metadata = ZeroMetadata

\* C5: the rendered document lists the results sorted by Title, so the
\* emitted sequence does not depend on the arrival order of the probes.
C5_SortedByTitle ==
    \A d \in 1..Len(output) :
        \A k, m \in 1..Len(output[d].records) :
            k < m => output[d].records[k].Title <= output[d].records[m].Title

AllUnreachable == \A t \in Targets : resp[t] \in {"none", "neterr"}

\* C6: when every client.Get returns a transport error no probe panics,
\* runScan collects one Available=false result per target and renders them,
\* and the scan command returns normally; such a scan always completes
\* once its setup has succeeded.
C6_AllUnreachableCompletes ==
    /\ [](AllUnreachable =>
            /\ ~crashed
            /\ \A t \in Targets : ~Panicked(t)
            /\ Returned =>
                  /\ Len(resultList) = secureDrops
                  /\ \A k \in 1..Len(resultList) : ~resultList[k].Available
                  /\ renderErr \/ (Len(output) = 1 /\ Len(output[1].records) = secureDrops)
            /\ pcMain = "exited" => exitStatus = "ok")
    /\ <>(pcMain = "exited" \/ ~AllUnreachable \/ setupErr # "")

C6_Witness ==
    /\ secureDrops >= 2
    /\ \A t \in Targets : resp[t] = "neterr"
    /\ pcMain = "exited"
    /\ Len(output) = 1
    /\ Len(output[1].records) = secureDrops

\* C7: a progress send never blocks a probe: whenever a checkStatus is at a
\* send on updates the send can go through, however slow reportProgress is.
C7_ProgressNeverBlocks ==
    \A t \in Targets :
        pc[t] \in {"checking", "finishing"} => Len(updates) < Cap

\* C8: with every goroutine scheduled and every network call returning,
\* every probe delivers its result and runScan, once called, eventually
\* renders the whole batch and returns.
C8_EventuallyComplete ==
    <>(\/ setupErr # ""
       \/ /\ pcMain = "exited"
          /\ Len(resultList) = secureDrops
          /\ \A t \in Targets : Delivered(t))

\* Main is blocked at wg.Wait for probes that have not finished.
WaitingAtBarrier ==
    pcMain = "launch" /\ (\A t \in Targets : pc[t] # "idle") /\ wg > 0

InOutput(t) ==
    \E d \in 1..Len(output) : \E k \in 1..Len(output[d].records) : output[d].records[k].Title = t

C10_RenderFailureReported ==
    exitStatus = "ok" =>
        /\ ~renderErr
        /\ \A k \in 1..Len(resultList) : InOutput(resultList[k].Title)

\* C11: with an empty target set runScan launches no probe, blocks neither
\* at the barrier nor on a channel, collects an empty batch and renders an
\* empty document without error.
C11_EmptyTargetSet ==
    secureDrops = 0 =>
        /\ \A t \in SecureDrops(MaxTargets + 1) : pc[t] = "idle"
        /\ ~crashed
        /\ pcMain = "launch" => wg = 0
        /\ (pcMain = "drain" /\ results = <<>>) => resultsClosed
        /\ resultList = <<>>
        /\ ~renderErr
        /\ Returned => output = <<[format |-> format, records |-> <<>>]>>
        /\ pcMain = "exited" => exitStatus = "ok"

C11_Witness ==
    /\ secureDrops = 0
    /\ format = "json"
    /\ pcMain = "exited"
    /\ output = <<[format |-> "json", records |-> <<>>]>>

\* The result of probing t written out as a function of t and of the
\* response of t alone.
ExpectedResult(t, r) ==
    [Title     |-> t,
     Available |-> r \in {"valid", "syntax", "badtype"},
     Error     |-> CASE r = "neterr" -> "get failed" [] r = "readerr" -> "read failed" [] OTHER -> "",
     Metadata  |-> CASE r = "valid"   -> [Version |-> "v", Fingerprint |-> "f"]
                     [] r = "badtype" -> [Version |-> "", Fingerprint |-> "f"]
                     [] OTHER         -> ZeroMetadata]

C16_CsvRowPerTarget ==
    \A d \in 1..Len(output) :
        output[d].format = "csv" =>
            /\ Len(output[d].records) = Len(resultList)
            /\ Len(output[d].records) = secureDrops

\* C17: a ScanResult delivered with Available=false has a non-empty Error and
\* zero-value Metadata, on the request-error and on the body-read-error path.
C17_UnavailableHasError ==
    \A k \in 1..Len(Sent) :
        ~Sent[k].Available =>
            /\ Sent[k].Error # ""
            /\ Sent[k].Metadata = ZeroMetadata
            /\ resp[Sent[k].Title] \in {"neterr", "readerr"}

C17_Witness ==
    /\ \E k \in 1..Len(Sent) : resp[Sent[k].Title] = "neterr" /\ ~Sent[k].Available
    /\ \E k \in 1..Len(Sent) : resp[Sent[k].Title] = "readerr" /\ ~Sent[k].Available

\* C18: no goroutine sends on a closed channel: no probe is at a send on a
\* channel that is closed, a probe panics only for a non-200 response, and
\* both closes happen after the barrier, when every probe has run wg.Done.
C18_NoSendOnClosed ==
    /\ \A t \in Targets :
          /\ pc[t] \in {"checking", "finishing"} => ~updatesClosed
          /\ pc[t] = "respond" => ~resultsClosed
          /\ Panicked(t) => resp[t] = "status"
    /\ (resultsClosed \/ updatesClosed) =>
          /\ wg = 0
          /\ \A t \in Targets : pc[t] \in {"done", "panicked"}

C18_Witness ==
    /\ secureDrops >= 2
    /\ resultsClosed
    /\ updatesClosed
    /\ \A t \in Targets : pc[t] = "done"

\* C19: the results channel never holds more than len(targets) results, so
\* a send on results never blocks; resultList is appended to only by the
\* collector, after the barrier.
C19_ResultsNeverBlock ==
    /\ Len(results) <= secureDrops
    /\ \A t \in Targets :
          (pc[t] = "respond" /\ resp[t] # "status" /\ ~resultsClosed) => Len(results) < Cap
    /\ resultList # <<>> =>
          /\ wg = 0
          /\ pcMain \in {"drain", "render", "closeUpdates", "returned", "exited"}

C19_Witness ==
    /\ secureDrops >= 2
    /\ Len(results) = secureDrops
    /\ pcMain = "launch"

RunScanCalled == pcMain \notin {"readInput", "makeClient", "getDirectory", "openOutput", "fatal"}

\* C15: when makeClient, the directory fetch or the reading of the input
\* file fails, the scan command aborts before runScan is called: no probe is
\* launched and nothing is written to the output.
C15_SetupFatalBeforeScan ==
    setupErr # "" =>
        /\ ~RunScanCalled
        /\ exitStatus = "fatal"
        /\ \A t \in SecureDrops(MaxTargets + 1) : pc[t] = "idle" /\ resp[t] = "none"
        /\ pcReport = "idle"
        /\ wg = 0
        /\ output = <<>>

C15_Witness ==
    /\ setupErr = "makeClient"
    /\ secureDrops >= 1
    /\ pcMain = "fatal"

Displayed(t) == Cardinality({k \in 1..Len(output) : output[k].Title = t})

\* C13: in the streaming variant every launched probe's result is received
\* and displayed exactly once, ch is closed only after all workers have
\* sent, no worker sends after the close, and the consumer loop ends having
\* displayed exactly N results: the run never ends otherwise.
C13_StreamExactlyOnce ==
    /\ \A t \in Targets : Displayed(t) <= 1
    /\ chClosed => \A t \in Targets : pc[t] = "done"
    /\ \A t \in Targets : pc[t] # "panicked"
    /\ (exitStatus # "running" /\ setupErr = "") =>
           /\ pcMain = "exited"
           /\ Len(output) = secureDrops
           /\ \A t \in Targets : Displayed(t) = 1

\* C14: in the streaming variant a failure confined to one target, a body
\* that does not decode included, is absorbed into that target's result and
\* never aborts the sibling probes.
C14_StreamFailureIsolated ==
    \A t \in Targets :
        /\ pc[t] # "fatal"
        /\ (resp[t] \in {"syntax", "badtype"}) => (~crashed /\ pc[t] \in {"send", "deferred", "done"})

\* The number of probes main of part_002 launches.
Launched == Cardinality({k \in 1..Len(lines) : lines[k] # ""})

\* C20: in the counter-based variant, for every number n >= 0 of launched
\* probes the collector loop receives exactly n results, the counter returns
\* to 0 and the loop terminates and prints the batch, with n = 0 included:
\* the loop is never left waiting with no probe to send.
C20_CounterLoopTerminates ==
    /\ pcMain \in {"print", "exited"} => (Len(resultList) = Launched /\ i = 0)
    /\ pcMain = "exited" => output = <<[format |-> "json", records |-> resultList]>>
    /\ pcMain = "recv" => \E k \in 1..Len(lines) : pc[k] \in {"check", "send"}
    /\ exitStatus # "deadlock"

\* The addresses a list of SecureDrops names.
AddressesOf(list) == {list[k].OnionAddress : k \in 1..Len(list)}

DistinctAddresses == AddressesOf(ArgEntries(onion_urls)) \cup AddressesOf(sdd) \cup AddressesOf(sddir)

\* The last entry of a list for address a.
LastFor(list, a) ==
    list[CHOOSE k \in 1..Len(list) :
            /\ list[k].OnionAddress = a
            /\ \A m \in (k + 1)..Len(list) : list[m].OnionAddress # a]

\* The entry that wins for address a: directory over input file over
\* arguments.
Winner(a) ==
    IF a \in AddressesOf(sddir) THEN LastFor(sddir, a)
    ELSE IF a \in AddressesOf(sdd) THEN LastFor(sdd, a)
    ELSE LastFor(ArgEntries(onion_urls), a)

\* C21: the target set holds one target per onion address: the sources are
\* merged in the order arguments, input file, directory, a later entry
\* replacing an earlier one for the same address, and the number of probes
\* launched and of results equals the number of distinct addresses.
C21_OneTargetPerAddress ==
    /\ secureDrops = Cardinality(DOMAIN sdMap)
    /\ \A a \in DOMAIN sdMap : sdMap[a].OnionAddress = a
    /\ pcMain \notin {"args", "readInput", "makeClient", "getDirectory", "fatal"} =>
          /\ DOMAIN sdMap = DistinctAddresses
          /\ \A a \in DOMAIN sdMap : sdMap[a] = Winner(a)
    /\ pcMain \in {"close", "drain", "render", "closeUpdates", "returned", "exited"} =>
          Cardinality({t \in SecureDrops(MaxTargets + 1) : pc[t] # "idle"})
              = Cardinality(DistinctAddresses)
    /\ Returned => Len(resultList) = Cardinality(DistinctAddresses)

====
